---- MODULE Spec2Model ----
(***************************************************************************)
(* Model of list_FOCUS_pagination_V0-4.go: the lister of FOCUS report      *)
(* objects, the download worker pool, the result collector and the two     *)
(* report writers.                                                         *)
(*                                                                         *)
(* A Go string is a sequence of one-character strings, so that Split,      *)
(* Atoi, Contains, path.Base and Format are computed as the code computes  *)
(* them.  A time.Time is an instant counted in ticks since 1970-01-01      *)
(* 00:00 UTC, TicksPerDay ticks to the day.                                *)
(***************************************************************************)
EXTENDS Integers, Sequences, FiniteSets, TLC

(***************************************************************************)
(* Strings                                                                 *)
(***************************************************************************)
DigitChars == <<"0", "1", "2", "3", "4", "5", "6", "7", "8", "9">>

IsDigit(c) == \E i \in 1..10 : DigitChars[i] = c

DigitVal(c) == (CHOOSE i \in 1..10 : DigitChars[i] = c) - 1

\* s[from..] (1-based), empty when from is past the end
Drop(s, from) == SubSeq(s, from, Len(s))

\* strings.Index(s, sep) >= 0 from position i on
RECURSIVE containsFrom(_, _, _)
containsFrom(s, sub, i) ==
    IF i + Len(sub) - 1 > Len(s) THEN FALSE
    ELSE IF SubSeq(s, i, i + Len(sub) - 1) = sub THEN TRUE
    ELSE containsFrom(s, sub, i + 1)

Contains(s, sub) == containsFrom(s, sub, 1)

\* strings.Split(s, "/"): the segments between slashes, empty ones kept
RECURSIVE splitFrom(_, _, _)
splitFrom(s, i, cur) ==
    IF i > Len(s) THEN <<cur>>
    ELSE IF s[i] = "/" THEN <<cur>> \o splitFrom(s, i + 1, <<>>)
    ELSE splitFrom(s, i + 1, Append(cur, s[i]))

Split(s) == splitFrom(s, 1, <<>>)

\* the decimal value of a sequence of digits
RECURSIVE digitsValue(_, _)
digitsValue(s, acc) ==
    IF s = <<>> THEN acc
    ELSE digitsValue(Tail(s), acc * 10 + DigitVal(Head(s)))

\* strconv.Atoi: an optional sign, then one or more decimal digits
Atoi(s) ==
    LET signed == s # <<>> /\ Head(s) \in {"+", "-"}
        body == IF signed THEN Tail(s) ELSE s
    IN  IF body = <<>> \/ \E i \in 1..Len(body) : ~IsDigit(body[i])
        THEN [ok |-> FALSE, val |-> 0]
        ELSE [ok |-> TRUE,
              val |-> IF signed /\ Head(s) = "-"
                      THEN 0 - digitsValue(body, 0)
                      ELSE digitsValue(body, 0)]

\* the decimal digits of n >= 0, zero-padded to width
RECURSIVE padInt(_, _)
padInt(n, width) ==
    IF n < 10 /\ width <= 1 THEN <<DigitChars[n + 1]>>
    ELSE Append(padInt(n \div 10, width - 1), DigitChars[(n % 10) + 1])

\* the time package's appendInt: sign, then the zero-padded magnitude
appendInt(n, width) ==
    IF n < 0 THEN <<"-">> \o padInt(0 - n, width) ELSE padInt(n, width)

\* path.Base: trailing slashes stripped, then what follows the last slash
RECURSIVE stripTrailingSlashes(_)
stripTrailingSlashes(s) ==
    IF s # <<>> /\ s[Len(s)] = "/"
    THEN stripTrailingSlashes(SubSeq(s, 1, Len(s) - 1))
    ELSE s

RECURSIVE afterLastSlash(_, _)
afterLastSlash(s, i) ==
    IF i = 0 THEN s
    ELSE IF s[i] = "/" THEN Drop(s, i + 1)
    ELSE afterLastSlash(s, i - 1)

pathBase(s) ==
    IF s = <<>> THEN <<".">>
    ELSE LET t == stripTrailingSlashes(s)
             u == afterLastSlash(t, Len(t))
         IN  IF u = <<>> THEN <<"/">> ELSE u

(***************************************************************************)
(* Dates                                                                   *)
(***************************************************************************)
TicksPerDay == 2

\* days from 1970-01-01 to the first of month m (1..12) of year y
DaysFromCivil(y, m) ==
    LET yy == IF m <= 2 THEN y - 1 ELSE y
        era == yy \div 400
        yoe == yy - era * 400
        mp == (m + 9) % 12
        doy == (153 * mp + 2) \div 5
        doe == yoe * 365 + yoe \div 4 - yoe \div 100 + doy
    IN  era * 146097 + doe - 719468

\* the calendar date of day z since 1970-01-01
CivilFromDays(z) ==
    LET zz == z + 719468
        era == zz \div 146097
        doe == zz - era * 146097
        yoe == (doe - doe \div 1460 + doe \div 36524 - doe \div 146096) \div 365
        doy == doe - (365 * yoe + yoe \div 4 - yoe \div 100)
        mp == (5 * doy + 2) \div 153
        d == doy - (153 * mp + 2) \div 5 + 1
        m == IF mp < 10 THEN mp + 3 ELSE mp - 9
        y == yoe + era * 400 + (IF m <= 2 THEN 1 ELSE 0)
    IN  [year |-> y, month |-> m, day |-> d]

\* time.Date(year, month, day, 0, 0, 0, 0, time.UTC): month and day out of
\* range are normalised into the following or preceding months
timeDate(year, month, day) ==
    LET m0 == month - 1
        y1 == year + m0 \div 12
        m1 == (m0 % 12) + 1
    IN  (DaysFromCivil(y1, m1) + day - 1) * TicksPerDay

\* t.AddDate(0, 0, -days) in UTC
addDays(t, days) == t + days * TicksPerDay

\* t.After(u)
After(t, u) == t > u

\* t.Format("2006-01-02")
formatISO(t) ==
    LET c == CivilFromDays(t \div TicksPerDay)
    IN  appendInt(c.year, 4) \o <<"-">> \o padInt(c.month, 2)
            \o <<"-">> \o padInt(c.day, 2)

\* formatDateForFilename: t.Format("20060102")
formatDateForFilename(t) ==
    LET c == CivilFromDays(t \div TicksPerDay)
    IN  appendInt(c.year, 4) \o padInt(c.month, 2) \o padInt(c.day, 2)

\* parseDateFromName
parseDateFromName(name) ==
    LET parts == Split(name)
        n == Len(parts)
    IN  IF n < 4 THEN [ok |-> FALSE, date |-> 0]
        ELSE LET year == Atoi(parts[n - 3])
                 month == Atoi(parts[n - 2])
                 day == Atoi(parts[n - 1])
             IN  IF ~year.ok \/ ~month.ok \/ ~day.ok
                 THEN [ok |-> FALSE, date |-> 0]
                 ELSE [ok |-> TRUE,
                       date |-> timeDate(year.val, month.val, day.val)]

(***************************************************************************)
(* String literals of the program and of the scenarios                     *)
(***************************************************************************)
\* "a/b/2025/09/25/FOCUS_REPORT1.csv"
NameReport1 ==
    <<"a", "/", "b", "/", "2", "0", "2", "5", "/", "0", "9", "/", "2", "5",
      "/", "F", "O", "C", "U", "S", "_", "R", "E", "P", "O", "R", "T", "1",
      ".", "c", "s", "v">>

\* "a/b/2025/09/20/FOCUS_REPORT2.csv"
NameReport2 ==
    <<"a", "/", "b", "/", "2", "0", "2", "5", "/", "0", "9", "/", "2", "0",
      "/", "F", "O", "C", "U", "S", "_", "R", "E", "P", "O", "R", "T", "2",
      ".", "c", "s", "v">>

\* "weirdfile.csv"
NameWeird ==
    <<"w", "e", "i", "r", "d", "f", "i", "l", "e", ".", "c", "s", "v">>

\* "x/2025/09/25/FOCUS.csv"
NameX ==
    <<"x", "/", "2", "0", "2", "5", "/", "0", "9", "/", "2", "5", "/", "F",
      "O", "C", "U", "S", ".", "c", "s", "v">>

\* "y/2025/09/25/FOCUS.csv"
NameY ==
    <<"y", "/", "2", "0", "2", "5", "/", "0", "9", "/", "2", "5", "/", "F",
      "O", "C", "U", "S", ".", "c", "s", "v">>

\* "FOCUS/2025/x9/25/r.csv"
NameBadMonth ==
    <<"F", "O", "C", "U", "S", "/", "2", "0", "2", "5", "/", "x", "9", "/",
      "2", "5", "/", "r", ".", "c", "s", "v">>

\* "FOCUS/2025/09/31/r.csv"
NameSept31 ==
    <<"F", "O", "C", "U", "S", "/", "2", "0", "2", "5", "/", "0", "9", "/",
      "3", "1", "/", "r", ".", "c", "s", "v">>

\* "FOCUS_weird.csv"
NameShort ==
    <<"F", "O", "C", "U", "S", "_", "w", "e", "i", "r", "d", ".", "c", "s",
      "v">>

\* "r/2025/09/29/other.csv"
NameOther ==
    <<"r", "/", "2", "0", "2", "5", "/", "0", "9", "/", "2", "9", "/", "o",
      "t", "h", "e", "r", ".", "c", "s", "v">>

\* "FOCUS"
MarkerFocus ==
    <<"F", "O", "C", "U", "S">>

\* "FOCUS_REPORT"
MarkerFocusReport ==
    <<"F", "O", "C", "U", "S", "_", "R", "E", "P", "O", "R", "T">>

\* "unknown_date_"
UnknownDatePrefix ==
    <<"u", "n", "k", "n", "o", "w", "n", "_", "d", "a", "t", "e", "_">>

\* "unknown"
UnknownDate ==
    <<"u", "n", "k", "n", "o", "w", "n">>

(***************************************************************************)
(* The object store.  An object is what ListObjects returns for it (Name,  *)
(* a nil pointer when HasName is false) together with what the store       *)
(* answers for it: ContentLength is the length HeadObject reports (HasLen  *)
(* false: no length in the response) and Body the number of bytes          *)
(* GetObject streams.                                                      *)
(***************************************************************************)
Obj(name, len, body) ==
    [HasName |-> TRUE, Name |-> name, HasLen |-> TRUE,
     ContentLength |-> len, Body |-> body]

ObjReport1 == Obj(NameReport1, 12345, 12345)
ObjReport2 == Obj(NameReport2, 500, 500)
ObjWeird == Obj(NameWeird, 7, 7)
ObjX == Obj(NameX, 10, 11)
ObjY == [Obj(NameY, 0, 20) EXCEPT !.HasLen = FALSE]
ObjBadMonth == Obj(NameBadMonth, 30, 30)
ObjSept31 == Obj(NameSept31, 31, 31)
ObjShort == Obj(NameShort, 40, 40)
ObjOther == Obj(NameOther, 50, 50)
ObjNoName == [Obj(<<>>, 0, 0) EXCEPT !.HasName = FALSE]

\* ListObjectsResponse: the objects of one page and NextStartWith
NilToken == 0
EmptyToken == -1
Page(objs, next) == [Objects |-> objs, NextStartWith |-> next]

\* 2025-09-30, the day the scenarios run
Today == DaysFromCivil(2025, 9) + 29

\* the job queue and the result channel hold 2 * MaxWorkers entries
ChanFactor == 2
\* the most workers main allows
WorkersCap == 16
\* the fewest workers main allows
WorkersFloor == 1

(***************************************************************************)
(* Bounds of the model                                                     *)
(***************************************************************************)
\* the -workers flag ranges over 0..MaxWorkersFlag
MaxWorkersFlag == 2
\* the program is run at most MaxRuns times on the same folder
MaxRuns == 2

(***************************************************************************)
(* State                                                                   *)
(***************************************************************************)
VARIABLES
    bucket,          \* the pages of the bucket listing
    workers,         \* the -workers flag
    now,             \* time.Now() of the run
    config,          \* Config: MaxWorkers, Days, DownloadFolder (set or empty)
    run,             \* the number of the run on this folder
    pc,              \* where main is
    fatalAt,         \* the step whose log.Fatalf ended the run, "" if none
    nextStart,       \* listAllFocusReports: the continuation token
    allObjects,      \* listAllFocusReports: the objects gathered so far
    objects,         \* main: the objects listAllFocusReports returned
    nextJob,         \* main: the index of the next object to enqueue
    jobs,            \* WorkerPool.jobs: the buffered jobs
    jobsClosed,      \* close(wp.jobs) has run
    results,         \* WorkerPool.results: the buffered results
    resultsClosed,   \* close(wp.results) has run
    wk,              \* the workers: position, job, result and file path
    collector,       \* the collector goroutine: "none", "run" or "exited"
    downloadResults, \* main: the collected OperationResults
    files,           \* the download folder: the file paths that exist
    filesAtStart,    \* history: the files of the folder when the run began
    io,              \* history: per job, what it did to the store and folder
    prev,            \* history: per job, how it ended in the run before
    reportRows,      \* the rows of the operation report
    reportWritten,   \* writeOperationReport returned nil
    summaryRows,     \* the rows of oci_focus_reports.csv
    summaryWritten   \* the summary was written

vars == <<bucket, workers, now, config, run, pc, fatalAt, nextStart, allObjects,
          objects, nextJob, jobs, jobsClosed, results, resultsClosed, wk,
          collector, downloadResults, files, filesAtStart, io, prev,
          reportRows, reportWritten, summaryRows, summaryWritten>>

inputVars == <<bucket, workers, now, run, prev>>
listVars == <<nextStart, allObjects>>
poolVars == <<jobs, jobsClosed, results, resultsClosed, wk>>
outVars == <<reportRows, reportWritten, summaryRows, summaryWritten>>

Max(a, b) == IF a > b THEN a ELSE b
Range(s) == {s[i] : i \in 1..Len(s)}

(***************************************************************************)
(* Records                                                                 *)
(***************************************************************************)
\* Job; idx is history: the position of the object in main's objects
Job(i, name) == [idx |-> i, ObjectName |-> name]
NoJob == Job(0, <<>>)

\* OperationResult (LastAttempt left out); job is history: the job's idx
NewResult(job) ==
    [job |-> job.idx, FileName |-> pathBase(job.ObjectName), FileSize |-> 0,
     ReportDate |-> <<>>, Status |-> "", Downloaded |-> FALSE, Error |-> ""]

NoResult == NewResult(NoJob)

\* a worker's frame: its position in worker and downloadSingleFile
IdleWorker ==
    [pc |-> "recv", job |-> NoJob, result |-> NoResult, filePath |-> <<>>,
     err |-> ""]

\* per job: head is how getObjectSize returned, stat is what os.Stat found,
\* gets, creates and copies count the GetObject, os.Create and io.Copy
\* calls, failedAt is the call that failed
NoIo == [head |-> "none", stat |-> "none", gets |-> 0, creates |-> 0,
         copies |-> 0, failedAt |-> ""]

(***************************************************************************)
(* The store's answers                                                     *)
(***************************************************************************)
RECURSIVE flatten(_)
flatten(pages) ==
    IF pages = <<>> THEN <<>>
    ELSE Head(pages).Objects \o flatten(Tail(pages))

\* the object of the bucket with this name
stored(name) ==
    CHOOSE o \in Range(flatten(bucket)) : o.HasName /\ o.Name = name

\* getObjectSize, given whether the HeadObject request succeeds
getObjectSize(name, headOk) ==
    IF ~headOk THEN [ok |-> FALSE, size |-> 0]
    ELSE IF ~stored(name).HasLen THEN [ok |-> FALSE, size |-> 0]
    ELSE [ok |-> TRUE, size |-> stored(name).ContentLength]

(***************************************************************************)
(* main: flags, worker count, download folder                              *)
(***************************************************************************)
\* mutant: the count is raised to 1 but not limited to 16
clampWorkersNoCap(w) == IF w < WorkersFloor THEN WorkersFloor ELSE w

clampWorkers(w) ==
    LET low == IF w < WorkersFloor THEN WorkersFloor ELSE w
    IN  IF low > WorkersCap THEN WorkersCap ELSE low

\* main up to the listing: the clamp of the worker count, then MkdirAll
MainSetup ==
    /\ pc = "start"
    /\ config' = [config EXCEPT !.MaxWorkers = clampWorkers(workers)]
    /\ \E mkdirOk \in BOOLEAN :
          IF config.DownloadFolder /\ ~mkdirOk
          THEN pc' = "fatal" /\ fatalAt' = "mkdir"
          ELSE pc' = "list" /\ fatalAt' = fatalAt
    /\ UNCHANGED <<inputVars, listVars, objects, nextJob, poolVars, collector,
                   downloadResults, files, filesAtStart, io, outVars>>

(***************************************************************************)
(* listAllFocusReports                                                     *)
(***************************************************************************)
\* mutant: the lookback is added to now instead of subtracted
cutoffForward == addDays(now, config.Days)

cutoff == addDays(now, 0 - config.Days)

hasMarker(name) ==
    Contains(name, MarkerFocus) \/ Contains(name, MarkerFocusReport)

inWindow(objDate) == After(objDate, cutoff)

\* mutant: the scan of a page ends at its first object without a name or
\* with a date that does not parse (break for continue)
RECURSIVE scanPageStopAtInvalid(_)
scanPageStopAtInvalid(objs) ==
    IF objs = <<>> THEN <<>>
    ELSE LET obj == Head(objs)
             rest == scanPageStopAtInvalid(Tail(objs))
         IN  IF ~obj.HasName THEN <<>>
             ELSE IF ~hasMarker(obj.Name) THEN rest
             ELSE LET objDate == parseDateFromName(obj.Name)
                  IN  IF ~objDate.ok THEN <<>>
                      ELSE IF inWindow(objDate.date) THEN <<obj>> \o rest
                      ELSE rest

\* the loop over one page's objects: what it appends to allObjects
RECURSIVE scanPage(_)
scanPage(objs) ==
    IF objs = <<>> THEN <<>>
    ELSE LET obj == Head(objs)
             rest == scanPage(Tail(objs))
         IN  IF ~obj.HasName THEN rest
             ELSE IF ~hasMarker(obj.Name) THEN rest
             ELSE LET objDate == parseDateFromName(obj.Name)
                  IN  IF ~objDate.ok THEN rest
                      ELSE IF inWindow(objDate.date) THEN <<obj>> \o rest
                      ELSE rest

\* the page the store returns for a request that starts at token
pageAt(token) == bucket[IF token = NilToken THEN 1 ELSE token]

\* mutant: a failed page request returns the objects gathered so far
listFailurePartial == allObjects

\* what listAllFocusReports returns when a page request fails
listFailure == <<>>

\* one iteration of the loop: a page request, the scan of the page, and the
\* return when the request failed or the page names no next page
ListPage ==
    /\ pc = "list"
    /\ \E reqOk \in BOOLEAN :
          IF ~reqOk
          THEN /\ objects' = listFailure
               /\ pc' = "fatal"
               /\ fatalAt' = "list"
               /\ UNCHANGED listVars
          ELSE LET resp == pageAt(nextStart)
                   gathered == allObjects \o scanPage(resp.Objects)
               IN  /\ allObjects' = gathered
                   /\ fatalAt' = fatalAt
                   /\ IF resp.NextStartWith \in {NilToken, EmptyToken}
                      THEN /\ objects' = gathered
                           /\ pc' = "listed"
                           /\ nextStart' = nextStart
                      ELSE /\ nextStart' = resp.NextStartWith
                           /\ pc' = "list"
                           /\ objects' = objects
    /\ UNCHANGED <<inputVars, config, nextJob, poolVars, collector,
                   downloadResults, files, filesAtStart, io, outVars>>

(***************************************************************************)
(* WorkerPool                                                              *)
(***************************************************************************)
\* mutant: the channels are made for as many entries as objects are listed
chanCapByObjects == Len(objects)

\* make(chan Job, config.MaxWorkers*2), make(chan Result, ...)
chanCap == config.MaxWorkers * ChanFactor

\* main with a download folder: NewWorkerPool, Start and the collector
PoolStart ==
    /\ pc = "listed"
    /\ config.DownloadFolder
    /\ jobs' = <<>>
    /\ results' = <<>>
    /\ jobsClosed' = FALSE
    /\ resultsClosed' = FALSE
    /\ wk' = [w \in 1..config.MaxWorkers |-> IdleWorker]
    /\ collector' = "run"
    /\ downloadResults' = <<>>
    /\ io' = [i \in 1..Len(objects) |-> NoIo]
    /\ nextJob' = 1
    /\ pc' = "enqueue"
    /\ UNCHANGED <<inputVars, config, fatalAt, listVars, objects, files,
                   filesAtStart, outVars>>

\* main without a download folder: no pool, no jobs, no operation report
SkipDownload ==
    /\ pc = "listed"
    /\ ~config.DownloadFolder
    /\ pc' = "summary"
    /\ UNCHANGED <<inputVars, config, fatalAt, listVars, objects, nextJob,
                   poolVars, collector, downloadResults, files, filesAtStart,
                   io, outVars>>

\* one iteration of main's loop over objects: AddJob blocks on a full queue
MainAddJob ==
    /\ pc = "enqueue"
    /\ nextJob <= Len(objects)
    /\ IF ~objects[nextJob].HasName
       THEN UNCHANGED <<jobs, pc, fatalAt>>
       ELSE IF jobsClosed
       THEN pc' = "fatal" /\ fatalAt' = "panic" /\ jobs' = jobs
       ELSE /\ Len(jobs) < chanCap
            /\ jobs' = Append(jobs, Job(nextJob, objects[nextJob].Name))
            /\ UNCHANGED <<pc, fatalAt>>
    /\ nextJob' = nextJob + 1
    /\ UNCHANGED <<inputVars, config, listVars, objects, jobsClosed, results,
                   resultsClosed, wk, collector, downloadResults, files,
                   filesAtStart, io, outVars>>

\* mutant: the queue is closed as soon as the pool runs, before main's loop
\* has submitted every job
MainCloseJobsEarly ==
    /\ pc = "enqueue"
    /\ IF jobsClosed
       THEN pc' = "fatal" /\ fatalAt' = "panic" /\ jobsClosed' = jobsClosed
       ELSE pc' = "wgWait" /\ fatalAt' = fatalAt /\ jobsClosed' = TRUE
    /\ UNCHANGED <<inputVars, config, listVars, objects, nextJob,
                   jobs, results, resultsClosed, wk, collector,
                   downloadResults, files, filesAtStart, io, outVars>>

\* WaitForCompletion: close(wp.jobs), once main's loop is over; the close
\* of a closed channel panics
MainCloseJobs ==
    /\ pc = "enqueue"
    /\ nextJob > Len(objects)
    /\ IF jobsClosed
       THEN pc' = "fatal" /\ fatalAt' = "panic" /\ jobsClosed' = jobsClosed
       ELSE pc' = "wgWait" /\ fatalAt' = fatalAt /\ jobsClosed' = TRUE
    /\ UNCHANGED <<inputVars, config, listVars, objects, nextJob,
                   jobs, results, resultsClosed, wk, collector,
                   downloadResults, files, filesAtStart, io, outVars>>

\* mutant: WaitForCompletion closes the results without wp.wg.Wait()
wgDoneNoWait == TRUE

\* wp.wg.Wait() returns: every worker has called wg.Done
wgDone == \A w \in 1..Len(wk) : wk[w].pc = "exited"

\* WaitForCompletion: wp.wg.Wait(), then close(wp.results); the close of a
\* closed channel panics
MainWgWait ==
    /\ pc = "wgWait"
    /\ wgDone
    /\ IF resultsClosed
       THEN /\ pc' = "fatal" /\ fatalAt' = "panic"
            /\ resultsClosed' = resultsClosed
       ELSE /\ pc' = "wgResultsWait" /\ fatalAt' = fatalAt
            /\ resultsClosed' = TRUE
    /\ UNCHANGED <<inputVars, config, listVars, objects, nextJob,
                   jobs, jobsClosed, results, wk, collector, downloadResults,
                   files, filesAtStart, io, outVars>>

\* mutant: main goes on to the report without wgResults.Wait()
wgResultsNoWait == TRUE

\* wgResults.Wait() returns: the collector has called wgResults.Done
wgResultsDone == collector = "exited"

MainWgResultsWait ==
    /\ pc = "wgResultsWait"
    /\ wgResultsDone
    /\ pc' = "report"
    /\ UNCHANGED <<inputVars, config, fatalAt, listVars, objects, nextJob,
                   poolVars, collector, downloadResults, files, filesAtStart,
                   io, outVars>>

(***************************************************************************)
(* downloadSingleFile, step by step in a worker's frame                    *)
(***************************************************************************)
\* mutant: the prefix is the date in the report_date layout
prefixedFilenameIso(name) ==
    LET date == parseDateFromName(name)
    IN  IF date.ok
        THEN formatISO(date.date) \o <<"_">> \o pathBase(name)
        ELSE UnknownDatePrefix \o pathBase(name)

\* datePrefix + path.Base(job.ObjectName)
prefixedFilename(name) ==
    LET date == parseDateFromName(name)
    IN  IF date.ok
        THEN formatDateForFilename(date.date) \o <<"_">> \o pathBase(name)
        ELSE UnknownDatePrefix \o pathBase(name)

\* result.ReportDate
reportDateOf(name) ==
    LET date == parseDateFromName(name)
    IN  IF date.ok THEN formatISO(date.date) ELSE UnknownDate

\* filepath.Join(folder, prefixedFilename): the path inside the folder
localPath(name) == prefixedFilename(name)

\* mutant: the skip check stats the object name instead of the local path
\* and never finds a file
statOkNever(path) == FALSE

\* os.Stat(filePath) returns no error
statOk(path) == path \in files

\* mutant: a failed step records the error and leaves the status unset
failedKeepsStatus(result, msg) == [result EXCEPT !.Error = msg]

\* the result of a failed step
failed(result, msg) == [result EXCEPT !.Status = "Failed", !.Error = msg]

\* the result when the file is already there
alreadyExists(result) ==
    [result EXCEPT !.Status = "Already exists", !.Downloaded = FALSE]

\* mutant: the size of the metadata is kept after the copy
succeededKeepsSize(result, n) ==
    [result EXCEPT !.Status = "Success", !.Downloaded = TRUE]

\* the result of a copy of n bytes
succeeded(result, n) ==
    [result EXCEPT !.FileSize = n, !.Status = "Success", !.Downloaded = TRUE]

workerFrame ==
    <<inputVars, config, listVars, objects, nextJob, jobsClosed,
      resultsClosed, collector, downloadResults, filesAtStart, outVars>>

\* a goroutine never runs once the process has exited
alive == pc # "fatal"

\* for job := range wp.jobs: a job is received; downloadSingleFile resolves
\* the size and names the local file
WorkerRecv(w) ==
    /\ alive
    /\ wk[w].pc = "recv"
    /\ jobs # <<>>
    /\ \E headOk \in BOOLEAN :
          LET job == Head(jobs)
              size == getObjectSize(job.ObjectName, headOk)
          IN  /\ wk' = [wk EXCEPT ![w] =
                          [pc |-> "stat", job |-> job,
                           result |-> [NewResult(job) EXCEPT
                                         !.FileSize = size.size,
                                         !.ReportDate = reportDateOf(job.ObjectName),
                                         !.FileName = prefixedFilename(job.ObjectName)],
                           filePath |-> localPath(job.ObjectName),
                           err |-> ""]]
              /\ io' = [io EXCEPT ![job.idx].head =
                                      IF size.ok THEN "ok" ELSE "failed"]
    /\ jobs' = Tail(jobs)
    /\ UNCHANGED <<workerFrame, pc, fatalAt, results, files>>

\* for job := range wp.jobs ends: the queue is closed and empty; wg.Done
WorkerExit(w) ==
    /\ alive
    /\ wk[w].pc = "recv"
    /\ jobs = <<>>
    /\ jobsClosed
    /\ wk' = [wk EXCEPT ![w].pc = "exited"]
    /\ UNCHANGED <<workerFrame, pc, fatalAt, jobs, results, files, io>>

\* mutant: the skip check sets the status and does not return
WorkerStatNoReturn(w) ==
    /\ alive
    /\ wk[w].pc = "stat"
    /\ LET j == wk[w].job.idx
       IN  IF statOk(wk[w].filePath)
           THEN /\ wk' = [wk EXCEPT ![w].pc = "get",
                                    ![w].result = alreadyExists(@)]
                /\ io' = [io EXCEPT ![j].stat = "present"]
           ELSE /\ wk' = [wk EXCEPT ![w].pc = "get"]
                /\ io' = [io EXCEPT ![j].stat = "absent"]
    /\ UNCHANGED <<workerFrame, pc, fatalAt, jobs, results, files>>

\* the skip check
WorkerStat(w) ==
    /\ alive
    /\ wk[w].pc = "stat"
    /\ LET j == wk[w].job.idx
       IN  IF statOk(wk[w].filePath)
           THEN /\ wk' = [wk EXCEPT ![w].pc = "send",
                                    ![w].result = alreadyExists(@)]
                /\ io' = [io EXCEPT ![j].stat = "present"]
           ELSE /\ wk' = [wk EXCEPT ![w].pc = "get"]
                /\ io' = [io EXCEPT ![j].stat = "absent"]
    /\ UNCHANGED <<workerFrame, pc, fatalAt, jobs, results, files>>

\* client.GetObject
WorkerGet(w) ==
    /\ alive
    /\ wk[w].pc = "get"
    /\ \E ok \in BOOLEAN :
          LET j == wk[w].job.idx
          IN  IF ok
              THEN /\ wk' = [wk EXCEPT ![w].pc = "create"]
                   /\ io' = [io EXCEPT ![j].gets = @ + 1]
              ELSE /\ wk' = [wk EXCEPT
                               ![w].pc = "send",
                               ![w].result = failed(@, "GetObject failed"),
                               ![w].err = "GetObject failed"]
                   /\ io' = [io EXCEPT ![j].gets = @ + 1,
                                       ![j].failedAt = "get"]
    /\ UNCHANGED <<workerFrame, pc, fatalAt, jobs, results, files>>

\* os.Create(filePath): the file is created, or truncated when it exists
WorkerCreate(w) ==
    /\ alive
    /\ wk[w].pc = "create"
    /\ \E ok \in BOOLEAN :
          LET j == wk[w].job.idx
          IN  IF ok
              THEN /\ wk' = [wk EXCEPT ![w].pc = "copy"]
                   /\ files' = files \cup {wk[w].filePath}
                   /\ io' = [io EXCEPT ![j].creates = @ + 1]
              ELSE /\ wk' = [wk EXCEPT
                               ![w].pc = "send",
                               ![w].result = failed(@, "Create failed"),
                               ![w].err = "Create failed"]
                   /\ files' = files
                   /\ io' = [io EXCEPT ![j].failedAt = "create"]
    /\ UNCHANGED <<workerFrame, pc, fatalAt, jobs, results>>

\* io.Copy(outFile, resp.Content)
WorkerCopy(w) ==
    /\ alive
    /\ wk[w].pc = "copy"
    /\ \E ok \in BOOLEAN :
          LET j == wk[w].job.idx
          IN  IF ok
              THEN /\ wk' = [wk EXCEPT
                               ![w].pc = "send",
                               ![w].result =
                                   succeeded(@, stored(wk[w].job.ObjectName).Body)]
                   /\ io' = [io EXCEPT ![j].copies = @ + 1]
              ELSE /\ wk' = [wk EXCEPT
                               ![w].pc = "send",
                               ![w].result = failed(@, "Copy failed"),
                               ![w].err = "Copy failed"]
                   /\ io' = [io EXCEPT ![j].copies = @ + 1,
                                       ![j].failedAt = "copy"]
    /\ UNCHANGED <<workerFrame, pc, fatalAt, jobs, results, files>>

\* mutant: a worker returns on a failed download instead of sending the
\* result and going on
WorkerSendStopOnFailure(w) ==
    /\ alive
    /\ wk[w].pc = "send"
    /\ IF wk[w].err # ""
       THEN /\ wk' = [wk EXCEPT ![w].pc = "exited"]
            /\ UNCHANGED <<results, pc, fatalAt>>
       ELSE /\ ~resultsClosed
            /\ Len(results) < chanCap
            /\ results' = Append(results, [Job |-> wk[w].job,
                                           Result |-> wk[w].result,
                                           Error |-> wk[w].err])
            /\ wk' = [wk EXCEPT ![w] = IdleWorker]
            /\ UNCHANGED <<pc, fatalAt>>
    /\ UNCHANGED <<workerFrame, jobs, files, io>>

\* wp.results <- Result{Job, Result, Error}: blocks on a full channel,
\* panics on a closed one
WorkerSend(w) ==
    /\ alive
    /\ wk[w].pc = "send"
    /\ IF resultsClosed
       THEN /\ pc' = "fatal"
            /\ fatalAt' = "panic"
            /\ UNCHANGED <<results, wk>>
       ELSE /\ Len(results) < chanCap
            /\ results' = Append(results, [Job |-> wk[w].job,
                                           Result |-> wk[w].result,
                                           Error |-> wk[w].err])
            /\ wk' = [wk EXCEPT ![w] = IdleWorker]
            /\ UNCHANGED <<pc, fatalAt>>
    /\ UNCHANGED <<workerFrame, jobs, files, io>>

(***************************************************************************)
(* The collector goroutine                                                 *)
(***************************************************************************)
\* mutant: the results are collected only once WaitForCompletion has
\* closed the channel
CollectorRecvAfterClose ==
    /\ alive
    /\ collector = "run"
    /\ resultsClosed
    /\ results # <<>>
    /\ downloadResults' = Append(downloadResults, Head(results).Result)
    /\ results' = Tail(results)
    /\ UNCHANGED <<inputVars, config, pc, fatalAt, listVars, objects, nextJob,
                   jobs, jobsClosed, resultsClosed, wk, collector, files,
                   filesAtStart, io, outVars>>

\* for result := range pool.results: one result is appended
CollectorRecv ==
    /\ alive
    /\ collector = "run"
    /\ results # <<>>
    /\ downloadResults' = Append(downloadResults, Head(results).Result)
    /\ results' = Tail(results)
    /\ UNCHANGED <<inputVars, config, pc, fatalAt, listVars, objects, nextJob,
                   jobs, jobsClosed, resultsClosed, wk, collector, files,
                   filesAtStart, io, outVars>>

\* the range ends: the channel is closed and empty; wgResults.Done
CollectorExit ==
    /\ alive
    /\ collector = "run"
    /\ results = <<>>
    /\ resultsClosed
    /\ collector' = "exited"
    /\ UNCHANGED <<inputVars, config, pc, fatalAt, listVars, objects, nextJob,
                   poolVars, downloadResults, files, filesAtStart, io, outVars>>

(***************************************************************************)
(* The report writers                                                      *)
(***************************************************************************)
\* strconv.FormatBool
formatBool(b) == IF b THEN "true" ELSE "false"

\* one record of writeOperationReport (last_attempt left out)
reportRecord(result) ==
    [file_name |-> result.FileName,
     file_size |-> appendInt(result.FileSize, 1),
     report_date |-> result.ReportDate,
     status |-> result.Status,
     downloaded |-> formatBool(result.Downloaded),
     error |-> result.Error,
     job |-> result.job]

\* writeOperationReport, then the printed lines; a failure to create or
\* write the file ends the run
MainWriteReport ==
    /\ pc = "report"
    /\ \E writeOk \in BOOLEAN :
          IF writeOk
          THEN /\ reportRows' = [i \in 1..Len(downloadResults) |->
                                    reportRecord(downloadResults[i])]
               /\ reportWritten' = TRUE
               /\ pc' = "summary"
               /\ fatalAt' = fatalAt
          ELSE /\ pc' = "fatal"
               /\ fatalAt' = "report"
               /\ UNCHANGED <<reportRows, reportWritten>>
    /\ UNCHANGED <<inputVars, config, listVars, objects, nextJob, poolVars,
                   collector, downloadResults, files, filesAtStart, io,
                   summaryRows, summaryWritten>>

\* the Report of object i, given whether its HeadObject request succeeds
summaryReport(i, headOk) ==
    [Name |-> objects[i].Name,
     Size |-> getObjectSize(objects[i].Name, headOk).size,
     Date |-> parseDateFromName(objects[i].Name).date]

\* the objects that get a Report: named, with a date that parses
reported ==
    {i \in 1..Len(objects) :
        objects[i].HasName /\ parseDateFromName(objects[i].Name).ok}

\* mutant: the less function is Before, so the sort is ascending
sortedOrdersAscending(reports) ==
    {p \in [1..Len(reports) -> 1..Len(reports)] :
        /\ \A i, j \in 1..Len(reports) : i # j => p[i] # p[j]
        /\ \A i, j \in 1..Len(reports) :
              i < j => ~After(reports[p[i]].Date, reports[p[j]].Date)}

\* the orders sort.Slice may leave: no later element is After an earlier one
sortedOrders(reports) ==
    {p \in [1..Len(reports) -> 1..Len(reports)] :
        /\ \A i, j \in 1..Len(reports) : i # j => p[i] # p[j]
        /\ \A i, j \in 1..Len(reports) :
              i < j => ~After(reports[p[j]].Date, reports[p[i]].Date)}

\* the indices of set S in increasing order
RECURSIVE ascending(_)
ascending(S) ==
    IF S = {} THEN <<>>
    ELSE LET m == CHOOSE x \in S : \A y \in S : x <= y
         IN  <<m>> \o ascending(S \ {m})

\* one row of oci_focus_reports.csv
summaryRecord(r) ==
    [object_name |-> pathBase(r.Name),
     size_bytes |-> appendInt(r.Size, 1),
     report_date |-> formatISO(r.Date),
     Date |-> r.Date]

\* mutant: an object whose size could not be fetched gets no Report
\* (continue for size = 0)
summaryReportsSkipUnsized(heads) ==
    LET idx == ascending({i \in reported :
                   getObjectSize(objects[i].Name, heads[i]).ok})
    IN  [k \in 1..Len(idx) |-> summaryReport(idx[k], heads[idx[k]])]

\* the Reports of the loop over objects, given which HeadObject requests
\* succeed
summaryReports(heads) ==
    LET idx == ascending(reported)
    IN  [k \in 1..Len(idx) |-> summaryReport(idx[k], heads[idx[k]])]

\* main from the summary on: the sizes, the sort, the file
MainSummary ==
    /\ pc = "summary"
    /\ \E heads \in [1..Len(objects) -> BOOLEAN], createOk \in BOOLEAN :
          IF createOk
          THEN \E reports \in {summaryReports(heads)} :
               \E p \in sortedOrders(reports) :
                  /\ summaryRows' = [k \in 1..Len(reports) |->
                                        summaryRecord(reports[p[k]])]
                  /\ summaryWritten' = TRUE
                  /\ pc' = "done"
                  /\ fatalAt' = fatalAt
          ELSE /\ pc' = "fatal"
               /\ fatalAt' = "summary"
               /\ UNCHANGED <<summaryRows, summaryWritten>>
    /\ UNCHANGED <<inputVars, config, listVars, objects, nextJob, poolVars,
                   collector, downloadResults, files, filesAtStart, io,
                   reportRows, reportWritten>>

(***************************************************************************)
(* Runs                                                                    *)
(***************************************************************************)
\* the state of a process that has just started, for every variable but
\* the inputs and the folder
Fresh ==
    /\ pc = "start"
    /\ fatalAt = ""
    /\ nextStart = NilToken
    /\ allObjects = <<>>
    /\ objects = <<>>
    /\ nextJob = 0
    /\ jobs = <<>>
    /\ jobsClosed = FALSE
    /\ results = <<>>
    /\ resultsClosed = FALSE
    /\ wk = <<>>
    /\ collector = "none"
    /\ downloadResults = <<>>
    /\ io = <<>>
    /\ reportRows = <<>>
    /\ reportWritten = FALSE
    /\ summaryRows = <<>>
    /\ summaryWritten = FALSE

\* the collected result of job i
outcome(i) ==
    LET k == CHOOSE k \in 1..Len(downloadResults) : downloadResults[k].job = i
    IN  downloadResults[k]

\* the program is run again with the same flags on the same bucket and
\* folder: only the files of the folder are kept
Rerun ==
    /\ pc = "done"
    /\ run < MaxRuns
    /\ run' = run + 1
    /\ filesAtStart' = files
    /\ pc' = "start"
    /\ fatalAt' = ""
    /\ nextStart' = NilToken
    /\ allObjects' = <<>>
    /\ objects' = <<>>
    /\ nextJob' = 0
    /\ jobs' = <<>>
    /\ jobsClosed' = FALSE
    /\ results' = <<>>
    /\ resultsClosed' = FALSE
    /\ wk' = <<>>
    /\ collector' = "none"
    /\ downloadResults' = <<>>
    /\ io' = <<>>
    /\ reportRows' = <<>>
    /\ reportWritten' = FALSE
    /\ summaryRows' = <<>>
    /\ summaryWritten' = FALSE
    /\ prev' = [i \in 1..Len(io) |->
                   [Status |-> outcome(i).Status, failedAt |-> io[i].failedAt]]
    /\ UNCHANGED <<bucket, workers, now, config, files>>

(***************************************************************************)
(* Specifications                                                          *)
(***************************************************************************)
\* the buckets of the whole-run specification: two listed objects with
\* one local path on two pages, two listed in the order of their dates
\* beside one without the marker, none
RunBuckets ==
    { <<Page(<<ObjX, ObjNoName, ObjBadMonth>>, 2), Page(<<ObjY>>, NilToken)>>,
      <<Page(<<ObjReport1, ObjOther, ObjSept31>>, EmptyToken),
        Page(<<ObjX>>, NilToken)>>,
      <<Page(<<ObjReport2, ObjShort>>, NilToken)>> }

\* a first run into an empty folder
Init ==
    /\ bucket \in RunBuckets
    /\ now = Today * TicksPerDay + (TicksPerDay - 1)
    /\ config \in [MaxWorkers : 0..MaxWorkersFlag, Days : {7},
                   DownloadFolder : BOOLEAN]
    /\ workers = config.MaxWorkers
    /\ run = 1
    /\ prev = <<>>
    /\ files = {}
    /\ filesAtStart = {}
    /\ Fresh

MainNext ==
    \/ MainSetup
    \/ ListPage
    \/ PoolStart
    \/ SkipDownload
    \/ MainAddJob
    \/ MainCloseJobs
    \/ MainWgWait
    \/ MainWgResultsWait
    \/ MainWriteReport
    \/ MainSummary

WorkerNext ==
    \E w \in 1..Len(wk) :
        \/ WorkerRecv(w)
        \/ WorkerExit(w)
        \/ WorkerStat(w)
        \/ WorkerGet(w)
        \/ WorkerCreate(w)
        \/ WorkerCopy(w)
        \/ WorkerSend(w)

CollectorNext == CollectorRecv \/ CollectorExit

Next == MainNext \/ WorkerNext \/ CollectorNext \/ Rerun

Spec == Init /\ [][Next]_vars

\* the listing alone, over more buckets, lookback windows and instants
ListBuckets ==
    { <<Page(<<ObjReport1, ObjReport2>>, NilToken)>>,
      <<Page(<<ObjX, ObjNoName, ObjBadMonth>>, 2),
        Page(<<ObjShort, ObjY, ObjReport1>>, NilToken)>>,
      <<Page(<<ObjReport1, ObjOther>>, EmptyToken), Page(<<ObjX>>, NilToken)>>,
      <<Page(<<ObjSept31, ObjWeird>>, 2), Page(<<>>, 3),
        Page(<<ObjReport2, ObjReport1>>, NilToken)>> }

ListDays == {-1, 0, 4, 5, 7, 10, 11}

ListInit ==
    /\ bucket \in ListBuckets
    /\ now \in {Today * TicksPerDay + tod : tod \in 0..(TicksPerDay - 1)}
    /\ config \in [MaxWorkers : {4}, Days : ListDays, DownloadFolder : {FALSE}]
    /\ workers = config.MaxWorkers
    /\ run = 1
    /\ prev = <<>>
    /\ files = {}
    /\ filesAtStart = {}
    /\ Fresh

ListNext == MainSetup \/ ListPage

ListSpec == ListInit /\ [][ListNext]_vars

\* the pool alone, driven as main drives it, over any list of objects and
\* any files left in the folder
PoolObjects ==
    { <<ObjWeird>>, <<ObjReport1, ObjSept31>>, <<ObjX, ObjWeird, ObjY>> }

PoolInit ==
    /\ \E objs \in PoolObjects :
          /\ bucket = <<Page(objs, NilToken)>>
          /\ objects = objs
          /\ allObjects = objs
          /\ files \in SUBSET {localPath(objs[1].Name)}
    /\ filesAtStart = files
    /\ now = Today * TicksPerDay
    /\ config \in [MaxWorkers : WorkersFloor..Max(WorkersFloor, MaxWorkersFlag),
                   Days : {7}, DownloadFolder : {TRUE}]
    /\ workers = config.MaxWorkers
    /\ run = 1
    /\ prev = <<>>
    /\ pc = "listed"
    /\ fatalAt = ""
    /\ nextStart = NilToken
    /\ nextJob = 0
    /\ jobs = <<>>
    /\ jobsClosed = FALSE
    /\ results = <<>>
    /\ resultsClosed = FALSE
    /\ wk = <<>>
    /\ collector = "none"
    /\ downloadResults = <<>>
    /\ io = <<>>
    /\ reportRows = <<>>
    /\ reportWritten = FALSE
    /\ summaryRows = <<>>
    /\ summaryWritten = FALSE

PoolNext ==
    \/ PoolStart
    \/ MainAddJob
    \/ MainCloseJobs
    \/ MainWgWait
    \/ MainWgResultsWait
    \/ MainWriteReport
    \/ WorkerNext
    \/ CollectorNext

PoolSpec == PoolInit /\ [][PoolNext]_vars

\* the object as a store keeps it that reports no ContentLength
noLength(o) == [o EXCEPT !.HasLen = FALSE]

\* the pool under fair scheduling: no object, two objects into an empty
\* folder, and five objects, more than both channels of one worker hold,
\* whose files are in the folder and whose metadata has no length
LiveFive ==
    <<noLength(ObjReport1), noLength(ObjReport2), noLength(ObjSept31),
      noLength(ObjX), noLength(ObjWeird)>>

LiveInputs ==
    { [objs |-> <<>>, files |-> {}],
      [objs |-> <<ObjReport1, ObjSept31>>, files |-> {}],
      [objs |-> LiveFive,
       files |-> {localPath(LiveFive[i].Name) : i \in 1..Len(LiveFive)}] }

LiveInit ==
    /\ \E in \in LiveInputs :
          /\ bucket = <<Page(in.objs, NilToken)>>
          /\ objects = in.objs
          /\ allObjects = in.objs
          /\ files = in.files
    /\ filesAtStart = files
    /\ now = Today * TicksPerDay
    /\ config \in [MaxWorkers : WorkersFloor..Max(WorkersFloor, MaxWorkersFlag),
                   Days : {7}, DownloadFolder : {TRUE}]
    /\ workers = config.MaxWorkers
    /\ run = 1
    /\ prev = <<>>
    /\ pc = "listed"
    /\ fatalAt = ""
    /\ nextStart = NilToken
    /\ nextJob = 0
    /\ jobs = <<>>
    /\ jobsClosed = FALSE
    /\ results = <<>>
    /\ resultsClosed = FALSE
    /\ wk = <<>>
    /\ collector = "none"
    /\ downloadResults = <<>>
    /\ io = <<>>
    /\ reportRows = <<>>
    /\ reportWritten = FALSE
    /\ summaryRows = <<>>
    /\ summaryWritten = FALSE

\* main's steps around the pool
LiveMain ==
    \/ PoolStart
    \/ MainAddJob
    \/ MainCloseJobs
    \/ MainWgWait
    \/ MainWgResultsWait
    \/ MainWriteReport

\* worker w's steps after it has received a job, and its exit
LiveWorkerStep(w) ==
    /\ w \in 1..Len(wk)
    /\ \/ WorkerExit(w)
       \/ WorkerStat(w)
       \/ WorkerGet(w)
       \/ WorkerCreate(w)
       \/ WorkerCopy(w)
       \/ WorkerSend(w)

\* worker w can receive: it waits on a queue that holds a job
recvReady(w) ==
    w \in 1..Len(wk) /\ alive /\ wk[w].pc = "recv" /\ jobs # <<>>

\* weak fairness of worker w's receive, its enabling condition written out
LiveRecvFair(w) ==
    []<>(~recvReady(w)) \/ []<><<w \in 1..Len(wk) /\ WorkerRecv(w)>>_vars

\* the scheduler runs every goroutine that can run: main, each worker and
\* the collector each take a step they can take for good
LiveSpec ==
    /\ LiveInit /\ [][PoolNext]_vars
    /\ WF_vars(LiveMain)
    /\ \A w \in 1..Max(WorkersFloor, MaxWorkersFlag) :
          WF_vars(LiveWorkerStep(w)) /\ LiveRecvFair(w)
    /\ WF_vars(CollectorNext)

\* the start of the pool for any -workers flag: main from its first line to
\* the end of its loop over objects, with the workers and the collector
\* at work on the jobs
ClampFlags == {-3, 0, 1, 2, 16, 17}

ClampInit ==
    /\ bucket = <<Page(<<ObjReport1, ObjOther, ObjSept31>>, NilToken)>>
    /\ now = Today * TicksPerDay
    /\ config \in [MaxWorkers : ClampFlags, Days : {7},
                   DownloadFolder : {TRUE}]
    /\ workers = config.MaxWorkers
    /\ run = 1
    /\ prev = <<>>
    /\ files = {}
    /\ filesAtStart = {}
    /\ Fresh

ClampNext ==
    \/ MainSetup
    \/ ListPage
    \/ PoolStart
    \/ MainAddJob
    \/ \E w \in 1..Len(wk) :
          \/ WorkerRecv(w)
          \/ WorkerStat(w)
          \/ WorkerGet(w)
          \/ WorkerCreate(w)
          \/ WorkerCopy(w)
          \/ WorkerSend(w)
    \/ CollectorRecv

ClampSpec == ClampInit /\ [][ClampNext]_vars

(***************************************************************************)
(* Properties                                                              *)
(***************************************************************************)
\* main is past wgResults.Wait()
pastWait ==
    \/ pc \in {"report", "summary", "done"}
    \/ pc = "fatal" /\ fatalAt \in {"report", "summary"}

\* the pool of this run has been created
poolUp == io # <<>> \/ collector # "none"

\* the jobs main's loop has submitted so far
Submitted == {i \in 1..Len(objects) : i < nextJob /\ objects[i].HasName}

\* the places a submitted job or its result can be
inQueue(i) == {k \in 1..Len(jobs) : jobs[k].idx = i}
inWorker(i) ==
    {w \in 1..Len(wk) : wk[w].pc \notin {"recv", "exited"} /\ wk[w].job.idx = i}
inChannel(i) == {k \in 1..Len(results) : results[k].Result.job = i}
inCollected(i) == {k \in 1..Len(downloadResults) : downloadResults[k].job = i}

\* the results that exist: built in a worker, in the channel, collected
builtResults == {wk[w].result : w \in {v \in 1..Len(wk) : wk[v].pc = "send"}}
sentResults == {results[k].Result : k \in 1..Len(results)}
AllResults == builtResults \cup sentResults \cup Range(downloadResults)

Statuses == {"Success", "Failed", "Already exists"}

\* C1: once WaitForCompletion and the collector have finished, the collected
\* results hold exactly one OperationResult per enqueued job, whichever branch
\* the job took; before that, every submitted job is in exactly one place
\* (the queue, a worker, the result channel or the collected results), so
\* none is dropped and none is processed or recorded twice.
C1_ExactlyOneResultPerJob ==
    /\ \A i \in Submitted :
          Cardinality(inQueue(i)) + Cardinality(inWorker(i))
              + Cardinality(inChannel(i)) + Cardinality(inCollected(i)) = 1
    /\ pastWait /\ poolUp =>
          /\ Submitted = {i \in 1..Len(objects) : objects[i].HasName}
          /\ Len(downloadResults) = Cardinality(Submitted)
          /\ \A i \in Submitted : Cardinality(inCollected(i)) = 1
          /\ \A k \in 1..Len(downloadResults) :
                downloadResults[k].Status \in Statuses

\* three jobs on two workers, one per branch, all collected
C1_Witness ==
    /\ pastWait
    /\ config.MaxWorkers = 2
    /\ Len(downloadResults) = 3
    /\ {downloadResults[k].Status : k \in 1..3} = Statuses

failureMessage(at) ==
    CASE at = "get" -> "GetObject failed"
      [] at = "create" -> "Create failed"
      [] at = "copy" -> "Copy failed"
      [] OTHER -> ""

\* C2: a job whose GetObject, os.Create or io.Copy failed has one result,
\* with status Failed, downloaded=false and the error message; the other
\* jobs have their own results, never Failed because of it; a worker stops
\* only when the queue is closed and empty; and nothing but the setup, the
\* listing and the writing of the two files ends the run.
C2_FailureIsolated ==
    /\ \A r \in AllResults :
          IF io[r.job].failedAt # ""
          THEN /\ r.Status = "Failed"
               /\ r.Downloaded = FALSE
               /\ r.Error = failureMessage(io[r.job].failedAt)
          ELSE /\ r.Status \in {"Success", "Already exists"}
               /\ r.Error = ""
    /\ \A w \in 1..Len(wk) : wk[w].pc = "exited" => jobsClosed /\ jobs = <<>>
    /\ pastWait /\ poolUp =>
          \A i \in 1..Len(objects) :
              objects[i].HasName => Cardinality(inCollected(i)) = 1
    /\ pc = "fatal" => fatalAt \in {"mkdir", "list", "report", "summary"}

\* a run that ended with both files written, one job Failed and another
\* downloaded
C2_Witness ==
    /\ pc = "done"
    /\ reportWritten
    /\ summaryWritten
    /\ \E a, b \in 1..Len(reportRows) :
          /\ reportRows[a].status = "Failed"
          /\ reportRows[a].error = "GetObject failed"
          /\ reportRows[b].status = "Success"

\* C3: a job whose skip check found a file at its local path issues no
\* GetObject, does not create or write the file, and its result has status
\* Already exists and downloaded=false.
C3_SkipExisting ==
    \A i \in 1..Len(io) :
        io[i].stat = "present" =>
            /\ io[i].gets = 0
            /\ io[i].creates = 0
            /\ io[i].copies = 0
            /\ \A w \in inWorker(i) : wk[w].pc = "send"
            /\ \A r \in AllResults :
                  r.job = i => /\ r.Status = "Already exists"
                               /\ r.Downloaded = FALSE
                               /\ r.Error = ""

\* a collected Already exists of a job that found the file
C3_Witness ==
    \E k \in 1..Len(downloadResults) :
        /\ downloadResults[k].Status = "Already exists"
        /\ io[downloadResults[k].job].stat = "present"
        /\ downloadResults[k].FileName \in files

\* the job left its local file in the folder
leftFile(p) == p.Status \in {"Success", "Already exists"} \/ p.failedAt = "copy"

\* C4 as stated: on a second run every object is Already exists and no
\* GetObject is issued.
C4_Idempotent ==
    run >= 2 /\ pastWait /\ poolUp =>
        /\ \A k \in 1..Len(downloadResults) :
              downloadResults[k].Status = "Already exists"
        /\ \A i \in 1..Len(io) : io[i].gets = 0

\* C4, amended: on a second run every object whose job of the first run
\* left its local file (Success, Already exists, or Failed in the copy) is
\* Already exists, downloaded=false, and no GetObject is issued for it.
C4_IdempotentWhereFileLeft ==
    run >= 2 /\ pastWait /\ poolUp =>
        \A i \in 1..Len(io) :
            leftFile(prev[i]) =>
                /\ outcome(i).Status = "Already exists"
                /\ outcome(i).Downloaded = FALSE
                /\ io[i].gets = 0

\* a second run after a first one that downloaded an object
C4_Witness ==
    /\ run = 2
    /\ pastWait
    /\ \E i \in 1..Len(io) :
          /\ prev[i].Status = "Success"
          /\ outcome(i).Status = "Already exists"

\* C5: writeOperationReport runs only once the job queue is closed, every
\* worker has exited, the result channel is closed and empty and the
\* collector has finished; the report has one row per submitted job, and
\* the collected results are the report's rows ever after.
C5_ReportAfterCollection ==
    /\ pc = "report" \/ reportWritten =>
          /\ jobsClosed
          /\ jobs = <<>>
          /\ \A w \in 1..Len(wk) : wk[w].pc = "exited"
          /\ resultsClosed
          /\ results = <<>>
          /\ collector = "exited"
    /\ reportWritten =>
          /\ Len(reportRows) =
                Cardinality({i \in 1..Len(objects) : objects[i].HasName})
          /\ Len(downloadResults) = Len(reportRows)
          /\ \A k \in 1..Len(reportRows) :
                /\ reportRows[k].job = downloadResults[k].job
                /\ reportRows[k].status = downloadResults[k].Status

\* a report of two rows
C5_Witness == reportWritten /\ Len(reportRows) = 2

\* C6 as stated: two workers that are at the stat, the fetch, the create
\* or the copy of jobs with different object names have different local
\* paths.
C6_DistinctPaths ==
    \A v, w \in 1..Len(wk) :
        /\ v # w
        /\ wk[v].pc \in {"stat", "get", "create", "copy"}
        /\ wk[w].pc \in {"stat", "get", "create", "copy"}
        /\ wk[v].job.ObjectName # wk[w].job.ObjectName
        => wk[v].filePath # wk[w].filePath

\* the last page of the listing: the first without a continuation token
C7_LastPage ==
    CHOOSE i \in 1..Len(bucket) :
        /\ bucket[i].NextStartWith \in {NilToken, EmptyToken}
        /\ \A j \in 1..(i - 1) : bucket[j].NextStartWith = j + 1

\* named, with the marker, with a date, the date strictly after now - days
C7_Wanted(o) ==
    /\ o.HasName
    /\ Contains(o.Name, MarkerFocus)
    /\ parseDateFromName(o.Name).ok
    /\ parseDateFromName(o.Name).date > now - config.Days * TicksPerDay

\* C7: a listing without a failed request returns exactly the wanted
\* objects of the pages up to the first one without a continuation token,
\* in order; the objects without a name or a date are passed over.
C7_ListingExact ==
    pc = "listed" =>
        objects = SelectSeq(flatten(SubSeq(bucket, 1, C7_LastPage)), C7_Wanted)

\* a listing of two pages that passed over a nameless object, an object
\* with an unparsable date and one of too few segments, and returned the
\* objects after them
C7_Witness ==
    /\ pc = "listed"
    /\ Len(bucket) = 2
    /\ nextStart = 2
    /\ ObjNoName \in Range(bucket[1].Objects)
    /\ ObjBadMonth \in Range(bucket[1].Objects)
    /\ ObjShort \in Range(bucket[2].Objects)
    /\ objects = <<ObjX, ObjY, ObjReport1>>

\* the bucket of the scenario, listed on 2025-09-30
C8_Bucket == <<Page(<<ObjReport1, ObjReport2>>, NilToken)>>

C8_Listed == pc = "listed" /\ bucket = C8_Bucket /\ now \div TicksPerDay = Today

\* C8 as stated: a lookback of 7 days includes both objects, of 4 days only
\* the first.
C8_Scenario ==
    C8_Listed =>
        /\ config.Days = 7 => objects = <<ObjReport1, ObjReport2>>
        /\ config.Days = 4 => objects = <<ObjReport1>>

\* C8, amended: a lookback of 7 days includes only the first object
\* (2025-09-20 is not after 2025-09-23), of 4 days neither (2025-09-25 is
\* not after 2025-09-26), of 11 days both.
C8_ScenarioByCutoff ==
    C8_Listed =>
        /\ config.Days = 7 => objects = <<ObjReport1>>
        /\ config.Days = 4 => objects = <<>>
        /\ config.Days = 11 => objects = <<ObjReport1, ObjReport2>>

C8_Witness == C8_Listed /\ config.Days = 7 /\ Len(objects) = 1

\* C9: when a page request fails the listing returns no object, and the
\* run ends there: no pool, no job, no fetch, no file, no report, no
\* summary, and no further step.
C9_ListFailureStopsRun ==
    fatalAt = "list" =>
        /\ pc = "fatal"
        /\ objects = <<>>
        /\ jobs = <<>> /\ results = <<>> /\ wk = <<>> /\ io = <<>>
        /\ collector = "none"
        /\ downloadResults = <<>>
        /\ files = filesAtStart
        /\ ~reportWritten /\ reportRows = <<>>
        /\ ~summaryWritten /\ summaryRows = <<>>
        /\ ~ENABLED Next

\* a request that failed on a later page, after objects were gathered, in
\* a run with a download folder
C9_Witness ==
    /\ fatalAt = "list"
    /\ allObjects # <<>>
    /\ nextStart # NilToken
    /\ config.DownloadFolder

\* "unknown_date_weirdfile.csv"
C10_WeirdLocal ==
    <<"u", "n", "k", "n", "o", "w", "n", "_", "d", "a", "t", "e", "_", "w",
      "e", "i", "r", "d", "f", "i", "l", "e", ".", "c", "s", "v">>

\* "20250925_FOCUS_REPORT1.csv"
C10_Report1Local ==
    <<"2", "0", "2", "5", "0", "9", "2", "5", "_", "F", "O", "C", "U", "S",
      "_", "R", "E", "P", "O", "R", "T", "1", ".", "c", "s", "v">>

\* "2025-09-25"
C10_Report1Date ==
    <<"2", "0", "2", "5", "-", "0", "9", "-", "2", "5">>

\* the local filename and the report date the object name stands for
C10_Expected(name) ==
    LET date == parseDateFromName(name)
    IN  IF date.ok
        THEN [FileName |-> formatDateForFilename(date.date) \o <<"_">>
                              \o pathBase(name),
              ReportDate |-> formatISO(date.date)]
        ELSE [FileName |-> UnknownDatePrefix \o pathBase(name),
              ReportDate |-> UnknownDate]

\* the same for the names of the pool's object lists, tabulated: pairs of
\* a name and what it stands for
C10_Table ==
    UNION {{<<objs[i].Name, C10_Expected(objs[i].Name)>> :
                i \in 1..Len(objs)} : objs \in PoolObjects}

C10_Named(name, expected, result, path) ==
    /\ result.FileName = expected.FileName
    /\ result.ReportDate = expected.ReportDate
    /\ path = result.FileName
    /\ name = NameWeird =>
          result.FileName = C10_WeirdLocal /\ result.ReportDate = UnknownDate
    /\ name = NameReport1 =>
          /\ result.FileName = C10_Report1Local
          /\ result.ReportDate = C10_Report1Date

\* C10: in every worker, channel, collected result and report row, whatever
\* the metadata fetch answered and whatever files exist, the file name and
\* the report date are those the object name stands for: <YYYYMMDD>_<base>
\* and the ISO date when a date parses, unknown_date_<base> and "unknown"
\* otherwise.
C10_FileNameFromObjectName ==
    \A i \in 1..Len(objects) :
       \A expected \in
             IF \E p \in C10_Table : p[1] = objects[i].Name
             THEN {p[2] : p \in {q \in C10_Table : q[1] = objects[i].Name}}
             ELSE {C10_Expected(objects[i].Name)} :
          /\ \A w \in 1..Len(wk) :
                (wk[w].pc \notin {"recv", "exited"} /\ wk[w].job.idx = i) =>
                    C10_Named(objects[i].Name, expected,
                              wk[w].result, wk[w].filePath)
          /\ \A r \in sentResults \cup Range(downloadResults) :
                r.job = i =>
                    C10_Named(objects[i].Name, expected, r, r.FileName)
          /\ \A k \in 1..Len(reportRows) :
                reportRows[k].job = i =>
                    /\ reportRows[k].file_name = expected.FileName
                    /\ reportRows[k].report_date = expected.ReportDate

\* the report holds weirdfile.csv as a Success row dated "unknown" beside a
\* row of 2025-09-25 whose file was found in the folder
C10_Witness ==
    /\ reportWritten
    /\ \E a, b \in 1..Len(reportRows) :
          /\ reportRows[a].file_name = C10_WeirdLocal
          /\ reportRows[a].status = "Success"
          /\ reportRows[a].report_date = UnknownDate
          /\ reportRows[b].status = "Already exists"
          /\ reportRows[b].report_date = C10_Report1Date

\* the objects a listing of the bucket returns
C11_Listed == SelectSeq(flatten(SubSeq(bucket, 1, C7_LastPage)), C7_Wanted)

\* the row is the summary row of object o: the base name, the ISO date of
\* the name, and the metadata size or 0
C11_RowOf(row, o) ==
    /\ row.object_name = pathBase(o.Name)
    /\ row.report_date = formatISO(parseDateFromName(o.Name).date)
    /\ \/ row.size_bytes = <<"0">>
       \/ o.HasLen /\ row.size_bytes = appendInt(o.ContentLength, 1)

\* C11: the written summary has exactly one row per listed object (each has
\* a name and a date that parses): the rows are the listed objects in some
\* order, each with its base name, its date and its metadata size or 0.
\* The rows depend on the bucket, the instant and the lookback only: not on
\* the download folder, not on the collected results.  Without a download
\* folder there is no pool, no job, no fetch, no file and no operation
\* report.
C11_SummaryRowPerListedObject ==
    /\ summaryWritten =>
          /\ Len(summaryRows) = Len(C11_Listed)
          /\ \E p \in [1..Len(summaryRows) -> 1..Len(summaryRows)] :
                /\ \A a, b \in 1..Len(summaryRows) : a # b => p[a] # p[b]
                /\ \A k \in 1..Len(summaryRows) :
                      C11_RowOf(summaryRows[k], C11_Listed[p[k]])
    /\ ~config.DownloadFolder =>
          /\ ~poolUp
          /\ wk = <<>> /\ jobs = <<>> /\ results = <<>>
          /\ downloadResults = <<>>
          /\ io = <<>>
          /\ files = filesAtStart
          /\ ~reportWritten /\ reportRows = <<>>

\* a summary of two rows written after a run with a download folder in
\* which a download failed, one row with size 0 for an object whose
\* metadata has a length
C11_Witness ==
    /\ summaryWritten
    /\ config.DownloadFolder
    /\ Len(summaryRows) = 2
    /\ \E k \in 1..Len(downloadResults) : downloadResults[k].Status = "Failed"
    /\ \E k \in 1..2 :
          /\ summaryRows[k].size_bytes = <<"0">>
          /\ summaryRows[k].object_name = pathBase(NameReport1)

\* the day a report_date text stands for, as the number YYYYMMDD
C12_DateOfText(t) ==
    Atoi(SubSeq(t, 1, 4)).val * 10000 + Atoi(SubSeq(t, 6, 7)).val * 100
        + Atoi(SubSeq(t, 9, 10)).val

\* "2025-10-01"
C12_Oct1 ==
    <<"2", "0", "2", "5", "-", "1", "0", "-", "0", "1">>

\* C12: the report_date of every row of the written summary is on or after
\* the report_date of the row below it, whatever the order of the listing
\* and whichever order the sort leaves objects of one date in.
C12_SummarySortedDescending ==
    summaryWritten =>
        \A k \in 1..(Len(summaryRows) - 1) :
            C12_DateOfText(summaryRows[k].report_date)
                >= C12_DateOfText(summaryRows[k + 1].report_date)

\* two objects listed with the earlier date first, written with the later
\* date first
C12_Witness ==
    /\ summaryWritten
    /\ objects = <<ObjReport1, ObjSept31>>
    /\ Len(summaryRows) = 2
    /\ summaryRows[1].report_date = C12_Oct1
    /\ summaryRows[2].report_date = C10_Report1Date

\* the 4th-, 3rd- and 2nd-from-last segments of a name read as integers
C13_Segments(name) ==
    LET parts == Split(name)
        n == Len(parts)
    IN  IF n < 4 THEN [ok |-> FALSE, year |-> 0, month |-> 0, day |-> 0]
        ELSE [ok |-> /\ Atoi(parts[n - 3]).ok
                     /\ Atoi(parts[n - 2]).ok
                     /\ Atoi(parts[n - 1]).ok,
              year |-> Atoi(parts[n - 3]).val,
              month |-> Atoi(parts[n - 2]).val,
              day |-> Atoi(parts[n - 1]).val]

\* C13: every object the listing gathered has a name of at least 4
\* segments with integers in the three positions, and the date
\* parseDateFromName returned for it has exactly that year, month and day;
\* an object whose name has fewer segments or a segment that is not an
\* integer got an error and was not gathered.
C13_ExactDateOrError ==
    /\ \A k \in 1..Len(allObjects) :
          LET seg == C13_Segments(allObjects[k].Name)
              date == parseDateFromName(allObjects[k].Name).date
              civil == CivilFromDays(date \div TicksPerDay)
          IN  /\ seg.ok
              /\ date % TicksPerDay = 0
              /\ civil.year = seg.year
              /\ civil.month = seg.month
              /\ civil.day = seg.day
    /\ \A o \in Range(flatten(bucket)) :
          (o.HasName /\ ~C13_Segments(o.Name).ok) => o \notin Range(allObjects)

\* C14: the job queue is closed only once main's loop has made its last
\* AddJob; a worker has exited only if the queue is closed and empty; the
\* result channel is closed only once every worker has exited, so no worker
\* holds a result to send; and no send on a closed channel and no second
\* close, each of which panics, ever happens.
C14_ShutdownOrder ==
    /\ jobsClosed => nextJob > Len(objects) /\ pc # "enqueue"
    /\ \A w \in 1..Len(wk) :
          wk[w].pc = "exited" => jobsClosed /\ jobs = <<>>
    /\ resultsClosed =>
          /\ jobsClosed
          /\ \A w \in 1..Len(wk) : wk[w].pc = "exited"
    /\ fatalAt # "panic"

\* two workers have exited after three jobs and the result channel is
\* closed while the collector still has results to take from it
C14_Witness ==
    /\ resultsClosed
    /\ Len(wk) = 2
    /\ \A w \in 1..Len(wk) : wk[w].pc = "exited"
    /\ Len(objects) = 3
    /\ collector = "run"
    /\ results # <<>>

\* C15: with N the clamped worker count, the job queue and the result
\* channel never hold more than 2 * N entries; main cannot add a job while
\* the queue holds 2 * N, and a worker cannot emit its result while the
\* channel holds 2 * N, however many objects are listed.
C15_BoundedChannels ==
    /\ poolUp => config.MaxWorkers = clampWorkers(workers)
    /\ Len(jobs) <= 2 * config.MaxWorkers
    /\ Len(results) <= 2 * config.MaxWorkers
    /\ (/\ pc = "enqueue"
        /\ nextJob <= Len(objects)
        /\ objects[nextJob].HasName
        /\ Len(jobs) = 2 * config.MaxWorkers) => ~ENABLED MainAddJob
    /\ \A w \in 1..Len(wk) :
          (wk[w].pc = "send" /\ Len(results) = 2 * config.MaxWorkers) =>
              ~ENABLED WorkerSend(w)

\* main holds the third of three jobs while the queue of one worker holds
\* two
C15_Witness ==
    /\ pc = "enqueue"
    /\ config.MaxWorkers = 1
    /\ Len(objects) = 3
    /\ nextJob = 3
    /\ Len(jobs) = 2
    /\ ~ENABLED MainAddJob

\* min(max(w, 1), 16) of the -workers flag
C16_N ==
    IF workers < 1 THEN 1 ELSE IF workers > 16 THEN 16 ELSE workers

\* the jobs that are being processed: submitted, out of the queue, and no
\* result of theirs in the channel or collected
C16_Processing ==
    {i \in Submitted :
        inQueue(i) = {} /\ inChannel(i) = {} /\ inCollected(i) = {}}

\* C16: whatever the -workers flag, the pool has exactly
\* N = min(max(w, 1), 16) workers and at most N jobs are being processed.
C16_ClampedWorkers ==
    /\ poolUp => Len(wk) = C16_N /\ config.MaxWorkers = C16_N
    /\ Cardinality(C16_Processing) <= C16_N
    /\ C16_Processing = {wk[w].job.idx : w \in {v \in 1..Len(wk) :
                                             wk[v].pc \notin {"recv", "exited"}}}

\* -workers 17: sixteen workers, two of them each at work on a job
C16_Witness ==
    /\ workers = 17
    /\ Len(wk) = 16
    /\ Cardinality(C16_Processing) = 2

\* the file_size and the status result r must have, given how the steps of
\* its job returned
C17_SizeAndStatus(r) ==
    LET o == objects[r.job]
        did == io[r.job]
        metadata == IF did.head = "ok" THEN o.ContentLength ELSE 0
    IN  /\ did.head \in {"ok", "failed"}
        /\ ~o.HasLen => did.head = "failed"
        /\ r.Status = "Success" => r.FileSize = o.Body
        /\ r.Status \in {"Already exists", "Failed"} => r.FileSize = metadata
        /\ r.Status = "Already exists" <=> did.stat = "present"
        /\ r.Status = "Failed" <=> did.failedAt # ""
        /\ r.Status = "Success" <=>
              did.stat = "absent" /\ did.copies = 1 /\ did.failedAt = ""

\* C17: in every result built, sent or collected, file_size is the number
\* of bytes copied when the status is Success, and otherwise the size
\* getObjectSize returned, 0 when it returned an error; the status follows
\* from the skip check and the fetch alone, whether or not getObjectSize
\* returned an error.
C17_FileSize == \A r \in AllResults : C17_SizeAndStatus(r)

\* collected: a Success of 11 bytes copied for an object of metadata length
\* 10 whose metadata fetch failed, and an Already exists of size 0 for an
\* object whose metadata fetch failed
C17_Witness ==
    \E a, b \in 1..Len(downloadResults) :
        /\ objects[downloadResults[a].job] = ObjX
        /\ io[downloadResults[a].job].head = "failed"
        /\ downloadResults[a].Status = "Success"
        /\ downloadResults[a].FileSize = 11
        /\ io[downloadResults[b].job].head = "failed"
        /\ downloadResults[b].Status = "Already exists"
        /\ downloadResults[b].FileSize = 0

\* a result is consistent: a status of the three, downloaded exactly when
\* Success, an error message only when Failed
C19_Consistent(r) ==
    /\ r.Status \in Statuses
    /\ r.Downloaded <=> r.Status = "Success"
    /\ r.Error # "" => r.Status = "Failed"

\* C19: every result a worker has built, every result in the channel and
\* every collected result is consistent, and the error a worker returns or
\* sends beside its result is non-nil exactly when the status is Failed.
C19_ResultConsistent ==
    /\ \A r \in AllResults : C19_Consistent(r)
    /\ \A w \in 1..Len(wk) :
          wk[w].pc = "send" =>
              (wk[w].err # "" <=> wk[w].result.Status = "Failed")
    /\ \A k \in 1..Len(results) :
          /\ results[k].Error # "" <=> results[k].Result.Status = "Failed"
          /\ results[k].Error = results[k].Result.Error

\* the channel holds a Failed result with its error and a Success without
\* one, while a worker holds an Already exists
C19_Witness ==
    /\ \E a, b \in 1..Len(results) :
          /\ results[a].Result.Status = "Failed"
          /\ results[a].Error # ""
          /\ results[b].Result.Status = "Success"
          /\ results[b].Error = ""
    /\ \E w \in 1..Len(wk) :
          wk[w].pc = "send" /\ wk[w].result.Status = "Already exists"

\* every job is enqueued, every worker and the collector have exited, and
\* main is past wgResults.Wait()
C18_Finished ==
    /\ poolUp
    /\ nextJob > Len(objects)
    /\ jobsClosed /\ jobs = <<>>
    /\ Len(wk) = config.MaxWorkers
    /\ \A w \in 1..Len(wk) : wk[w].pc = "exited"
    /\ resultsClosed /\ results = <<>>
    /\ collector = "exited"
    /\ pastWait
    /\ Len(downloadResults) = Len(objects)

\* C18: under fair scheduling, with every download step returning, every
\* run of the pool reaches the state in which the producer has enqueued
\* every job, every worker and the collector have exited and main is past
\* wgResults.Wait(); so no state on the way has the producer, the workers
\* and the collector all blocked.
C18_Terminates == <>C18_Finished

\* five jobs through one worker, whose two channels hold four, are done
C18_Witness ==
    /\ C18_Finished
    /\ config.MaxWorkers = 1
    /\ Len(downloadResults) = 5

\* C20: in a run after one in which the job of an object failed: if it
\* failed in the copy, its file was left in the folder, the skip check finds
\* it, no GetObject is issued and the result is Already exists with
\* downloaded=false; if it failed at GetObject or at os.Create, no file of
\* its path is in the folder, the skip check finds none and the fetch is
\* attempted again.
C20_FailedJobFile ==
    (run >= 2 /\ poolUp) =>
        \A i \in 1..Len(io) :
            /\ prev[i].failedAt = "copy" =>
                  /\ localPath(objects[i].Name) \in filesAtStart
                  /\ io[i].stat # "absent"
                  /\ io[i].gets = 0
                  /\ \A r \in AllResults :
                        r.job = i =>
                            r.Status = "Already exists" /\ ~r.Downloaded
            /\ prev[i].failedAt \in {"get", "create"} =>
                  /\ localPath(objects[i].Name) \notin filesAtStart
                  /\ io[i].stat # "present"
                  /\ \A r \in AllResults : r.job = i => io[i].gets = 1

====
